---- MODULE Spec2Model ----
(***************************************************************************)
(* Model of run.py: main() polls a paginated search, forwards every valid  *)
(* status to the Kafka producer and/or a JSON-lines file and tracks the    *)
(* max_id cursor; init_twitter_api() probes the configured credentials in  *)
(* order and returns the first session with remaining search quota.        *)
(***************************************************************************)
EXTENDS Integers, Sequences, FiniteSets, TLC

\* ---------------------------------------------------------------- bounds
MaxId == 2            \* status ids range over 0..MaxId
MaxPageLen == 2       \* a page holds at most MaxPageLen statuses
MaxPages == 2         \* searches answered with a page during one run
MaxStreak == 4        \* consecutive 500/503 answers the upstream may give
MaxLimit == 2         \* --limit ranges over 0..MaxLimit

\* ------------------------------------------------------ program constants
max_retries == 3      \* run.py:32
DefaultTts == 900     \* run.py:140
RetrySleep == 60      \* run.py:108

\* ------------------------------------------------------------- the inputs
Absent == "<absent>"                       \* the key is not in the dict
CreatedAts == {"Thu Nov 05", "", Absent}
ScreenNames == {"alice"}

Status(id, created_at, screen_name) ==
    [id |-> id, id_str |-> ToString(id), created_at |-> created_at,
     user |-> [screen_name |-> screen_name]]

\* the statuses the upstream may return: ids 1..MaxId with every created_at,
\* and one status whose id is 0 (falsy) and that has no created_at
Statuses ==
    {Status(id, c, s) : id \in 1..MaxId, c \in CreatedAts, s \in ScreenNames}
        \cup {Status(0, Absent, s) : s \in ScreenNames}

\* the pages a search with count = n may return
Pages(n) == UNION {[1..m -> Statuses] : m \in 0..n}

\* str(e) of the exceptions twitter.search may raise
SearchErrors ==
    {"429 (Too Many Requests)", "500 (Internal Server Error)",
     "503 (Service Unavailable)", "401 (Unauthorized)", "403 (Forbidden)",
     "404 (Not Found)", "400 (Bad Request)"}

\* resource["reset"] - int(time.time()) as seen by one probe
ResetDeltas == {-2, 4, 950}
Remainings == {0, 7}

\* the command lines the model runs main() with: every sink and limit with
\* one credential, the id bounds, and the credential lists with pages of one
BaseArgs ==
    [kafka_brokers |-> TRUE, output_json |-> FALSE, limit |-> 0, max_id |-> 0,
     since_id |-> 0, count |-> MaxPageLen, client_id |-> <<"id1">>,
     client_secret |-> <<"secret1">>]

ArgsSet ==
    {[BaseArgs EXCEPT !.kafka_brokers = sinks[1], !.output_json = sinks[2],
                      !.limit = l] :
        sinks \in {<<TRUE, FALSE>>, <<TRUE, TRUE>>, <<FALSE, TRUE>>},
        l \in 0..MaxLimit}
    \cup {[BaseArgs EXCEPT !.max_id = 1], [BaseArgs EXCEPT !.since_id = 1]}
    \cup {[BaseArgs EXCEPT !.count = 1, !.client_id = ci, !.client_secret = cs] :
            ci \in {<<"id1", "id2">>},
            cs \in {<<"secret1", "secret2">>, <<"secret1">>}}
    \cup {[BaseArgs EXCEPT !.count = 1, !.client_id = <<>>,
                           !.client_secret = <<>>]}

VARIABLES
    args,              \* Arguments of the run
    max_id,            \* pagination cursor
    captured,
    finished,
    retries,
    results,           \* page returned by the last successful search
    previous_results,
    twitter,           \* index of the credential of the current session, 0 = none
    published,         \* messages handed to producer.send, in order
    written,           \* lines dumped to the output file, in order
    pc,                \* position of the control flow
    k,                 \* position of the for loop in results
    outcome,           \* answer of the last search call, or the exception raised since
    request_max_id,    \* max_id argument of the last search call
    total_logged,      \* count reported by the final log line, -1 = not logged
    transient_streak,  \* consecutive 500/503 answers since the last other answer
    pages,             \* searches answered with a page so far
    i,                 \* init_twitter_api: credential index of the for loop
    tts,               \* init_twitter_api: time to sleep
    remaining,         \* init_twitter_api: remaining quota of the last probe
    probed,            \* init_twitter_api: outcomes of the probes of this pass
    sleeping           \* argument of the time.sleep call in progress, 0 = awake

vars == <<args, max_id, captured, finished, retries, results, previous_results,
          twitter, published, written, pc, k, outcome, request_max_id,
          total_logged, transient_streak, pages, i, tts, remaining,
          probed, sleeping>>

mainVars == <<max_id, captured, finished, retries, results, previous_results,
              published, written, k, outcome, request_max_id, total_logged,
              transient_streak, pages>>
acqVars == <<i, tts, remaining, probed, sleeping>>

\* ------------------------------------------------------------ process_entry
\* the url built with the id and the screen name in each other's place
process_entry_swapped(entry) ==
    [id |-> entry.id_str,
     url |-> "https://twitter.com/" \o entry.id_str
                 \o "/status/" \o entry.user.screen_name]

process_entry(entry) ==
    [id |-> entry.id_str,
     url |-> "https://twitter.com/" \o entry.user.screen_name
                 \o "/status/" \o entry.id_str]

\* ------------------------------------------------------------------- main
\* lines 27-33: the locals of main() before init_twitter_api is called
Start ==
    /\ max_id = args.max_id
    /\ captured = 0
    /\ finished = FALSE
    /\ retries = 0
    /\ results = <<>>
    /\ previous_results = <<>>
    /\ twitter = 0
    /\ published = <<>>
    /\ written = <<>>
    /\ pc = "init_twitter_api"
    /\ k = 0
    /\ outcome = "none"
    /\ request_max_id = 0
    /\ total_logged = -1
    /\ transient_streak = 0
    /\ pages = 0
    /\ i = 0
    /\ tts = DefaultTts
    /\ remaining = 0
    /\ probed = <<>>
    /\ sleeping = 0

Init ==
    /\ args \in ArgsSet
    /\ Start

\* only the empty page counts as exhaustion
Exhausted_empty_only(res, prev) == res = <<>>

\* `not results or previous_results == results'
Exhausted(res, prev) == res = <<>> \/ prev = res

\* the capture limit compared with > instead of >=
cond1_strict(cap) == args.limit # 0 /\ cap > args.limit

cond1(cap) == args.limit # 0 /\ cap >= args.limit
cond2(mid) == args.max_id # 0 /\ mid >= args.max_id
\* the since_id bound compared with < instead of <=
cond3_strict(mid) == args.since_id # 0 /\ mid < args.since_id

cond3(mid) == args.since_id # 0 /\ mid <= args.since_id

\* `status["id"] and status["created_at"]': created_at is only looked up
\* when the id is truthy
RaisesKeyError(status) == status.id # 0 /\ status.created_at = Absent
\* the validity test without created_at
IsValid_id_only(status) == status.id # 0

IsValid(status) == status.id # 0 /\ status.created_at # ""

\* every status counted, valid or not
NextCaptured_always(valid) == captured + 1

\* `captured += 1' inside the branch of the valid statuses
NextCaptured(valid) == IF valid THEN captured + 1 ELSE captured

\* the cursor moved by the valid statuses only
NextMaxId_valid_only(status) ==
    IF IsValid(status) THEN status.id - 1 ELSE max_id

\* the cursor only ever lowered: the least id seen so far, minus one
NextMaxId_keep_lowest(status) ==
    IF status.id - 1 < max_id THEN status.id - 1 ELSE max_id

\* the cursor set to the id itself
NextMaxId_same_id(status) == status.id

NextMaxId(status) == status.id - 1

\* the except clause: which branch the text of the exception selects
Classify(e) ==
    IF e = "429 (Too Many Requests)" THEN "RateLimited"
    ELSE IF e \in {"500 (Internal Server Error)", "503 (Service Unavailable)"}
    THEN "Transient"
    ELSE IF e \in {"401 (Unauthorized)", "403 (Forbidden)", "404 (Not Found)"}
    THEN "Permanent"
    ELSE "Unclassified"

\* the statements every call of twitter.search shares: lines 48-49 and the
\* max_id argument of the request
SearchCall(answer) ==
    /\ pc = "search"
    /\ previous_results' = results
    /\ retries' = 0
    /\ request_max_id' = max_id
    /\ outcome' = answer

\* twitter.search raises an exception of the given class
SearchRaises(class) ==
    /\ \E e \in SearchErrors : Classify(e) = class
    /\ SearchCall(class)

\* twitter.search answers with a page
SearchPage ==
    /\ pages < MaxPages
    /\ SearchCall("page")
    /\ pages' = pages + 1
    /\ transient_streak' = 0
    /\ \E page \in Pages(args.count) :
        /\ results' = page
        /\ IF Exhausted(page, results)
           THEN /\ finished' = TRUE
                /\ pc' = "done"
                /\ total_logged' = captured
                /\ k' = 0
           ELSE /\ pc' = "for"
                /\ k' = 1
                /\ UNCHANGED <<finished, total_logged>>
    /\ UNCHANGED <<args, max_id, captured, twitter, published, written>>
    /\ UNCHANGED acqVars

\* one iteration of `for status in results'
ProcessStatus ==
    /\ pc = "for"
    /\ LET status == results[k]
           new_max_id == NextMaxId(status)
       IN  /\ max_id' = new_max_id
           /\ IF RaisesKeyError(status)
              THEN /\ pc' = "raised"
                   /\ outcome' = "KeyError"
                   /\ UNCHANGED <<captured, published, written, finished,
                                  total_logged, k>>
              ELSE LET valid == IsValid(status)
                       cap == NextCaptured(valid)
                   IN  /\ captured' = cap
                       /\ published' =
                            IF valid /\ args.kafka_brokers
                            THEN Append(published,
                                        [key |-> status.id_str,
                                         value |-> process_entry(status)])
                            ELSE published
                       /\ written' =
                            IF valid /\ args.output_json
                            THEN Append(written, status)
                            ELSE written
                       /\ outcome' = outcome
                       /\ IF cond1(cap) \/ cond2(new_max_id) \/ cond3(new_max_id)
                          THEN /\ finished' = TRUE
                               /\ pc' = "done"
                               /\ total_logged' = cap
                               /\ k' = k
                          ELSE /\ UNCHANGED <<finished, total_logged>>
                               /\ IF k = Len(results)
                                  THEN pc' = "search" /\ k' = k
                                  ELSE pc' = "for" /\ k' = k + 1
    /\ UNCHANGED <<args, retries, results, previous_results, twitter,
                   request_max_id, transient_streak, pages>>
    /\ UNCHANGED acqVars

\* a rate limit that restarts the pagination from the configured max_id
SearchRateLimited_restart ==
    /\ SearchRaises("RateLimited")
    /\ transient_streak' = 0
    /\ pc' = "init_twitter_api"
    /\ max_id' = args.max_id
    /\ UNCHANGED <<args, captured, finished, results, twitter,
                   published, written, k, total_logged, pages>>
    /\ UNCHANGED acqVars

\* twitter.search raises "429 (Too Many Requests)"
SearchRateLimited ==
    /\ SearchRaises("RateLimited")
    /\ transient_streak' = 0
    /\ pc' = "init_twitter_api"
    /\ UNCHANGED <<args, max_id, captured, finished, results, twitter,
                   published, written, k, total_logged, pages>>
    /\ UNCHANGED acqVars

\* a 500 or a 503 retried at once, without the sleep
SearchTransient_no_sleep ==
    /\ transient_streak < MaxStreak
    /\ SearchRaises("Transient")
    /\ transient_streak' = transient_streak + 1
    /\ pc' = "search"
    /\ UNCHANGED <<args, max_id, captured, finished, results, twitter,
                   published, written, k, pages, total_logged>>
    /\ UNCHANGED acqVars

\* twitter.search raises a 500 or a 503
SearchTransient ==
    /\ transient_streak < MaxStreak
    /\ SearchRaises("Transient")
    /\ transient_streak' = transient_streak + 1
    /\ IF retries' = max_retries
       THEN pc' = "done" /\ total_logged' = captured /\ sleeping' = 0
       ELSE /\ pc' = "retry_sleep"
            /\ sleeping' = RetrySleep
            /\ total_logged' = total_logged
    /\ UNCHANGED <<args, max_id, captured, finished, results, twitter,
                   published, written, k, pages>>
    /\ UNCHANGED <<i, tts, remaining, probed>>

\* time.sleep(60) returns and the while loop starts over
RetrySleepDone ==
    /\ pc = "retry_sleep"
    /\ pc' = "search"
    /\ sleeping' = 0
    /\ UNCHANGED <<args, twitter>>
    /\ UNCHANGED mainVars
    /\ UNCHANGED <<i, tts, remaining, probed>>

\* a 401, 403 or 404 handled like a 500: sleep and search again
SearchPermanent_retried ==
    /\ SearchRaises("Permanent")
    /\ transient_streak' = 0
    /\ pc' = "retry_sleep"
    /\ sleeping' = RetrySleep
    /\ UNCHANGED <<args, max_id, captured, finished, results, twitter,
                   published, written, k, total_logged, pages>>
    /\ UNCHANGED <<i, tts, remaining, probed>>

\* twitter.search raises a 401, a 403 or a 404
SearchPermanent ==
    /\ SearchRaises("Permanent")
    /\ transient_streak' = 0
    /\ pc' = "done"
    /\ total_logged' = captured
    /\ UNCHANGED <<args, max_id, captured, finished, results, twitter,
                   published, written, k, pages>>
    /\ UNCHANGED acqVars

\* an unknown failure handled like a 404: logged, and the run ends normally
SearchUnclassified_skipped ==
    /\ SearchRaises("Unclassified")
    /\ transient_streak' = 0
    /\ pc' = "done"
    /\ total_logged' = captured
    /\ UNCHANGED <<args, max_id, captured, finished, results, twitter,
                   published, written, k, pages>>
    /\ UNCHANGED acqVars

\* twitter.search raises anything else: `raise e'
SearchUnclassified ==
    /\ SearchRaises("Unclassified")
    /\ transient_streak' = 0
    /\ pc' = "raised"
    /\ UNCHANGED <<args, max_id, captured, finished, results, twitter,
                   published, written, k, total_logged, pages>>
    /\ UNCHANGED acqVars

\* ------------------------------------------------------- init_twitter_api
\* lines 128-140: entry of the function and start of the first pass
EnterInitTwitterApi ==
    /\ pc = "init_twitter_api"
    /\ IF args.client_id = <<>> \/ args.client_secret = <<>>
       THEN /\ pc' = "raised"
            /\ outcome' = "ValueError: Missing CLIENT_ID and CLIENT_SECRET"
            /\ UNCHANGED acqVars
       ELSE /\ pc' = "probe"
            /\ i' = 1
            /\ tts' = DefaultTts
            /\ remaining' = 0
            /\ probed' = <<>>
            /\ sleeping' = 0
            /\ outcome' = outcome
    /\ UNCHANGED <<args, twitter, max_id, captured, finished, retries, results,
                   previous_results, published, written, k, request_max_id,
                   total_logged, transient_streak, pages>>

\* the comparison of tts and reset reversed
NextTts_largest(t, reset) == IF t < reset THEN reset ELSE t

\* `elif tts > reset: tts = reset'
NextTts(t, reset) == IF t > reset THEN reset ELSE t

\* a probe whose session is returned whatever its remaining quota
ProbeOk_any_quota ==
    /\ pc = "probe"
    /\ i <= Len(args.client_id)
    /\ i <= Len(args.client_secret)
    /\ \E rem \in Remainings, delta \in ResetDeltas :
        /\ remaining' = rem
        /\ probed' = Append(probed, [kind |-> "ok", remaining |-> rem,
                                     reset |-> delta + 1])
        /\ pc' = "return"
    /\ UNCHANGED <<args, twitter, sleeping, i, tts>>
    /\ UNCHANGED mainVars

\* the probe of credential i answers: authentication and rate limit status
ProbeOk ==
    /\ pc = "probe"
    /\ i <= Len(args.client_id)
    /\ i <= Len(args.client_secret)
    /\ \E rem \in Remainings, delta \in ResetDeltas :
        LET reset == delta + 1
        IN  /\ remaining' = rem
            /\ probed' = Append(probed, [kind |-> "ok", remaining |-> rem,
                                         reset |-> reset])
            /\ IF rem # 0
               THEN /\ pc' = "return"
                    /\ UNCHANGED <<i, tts>>
               ELSE /\ tts' = NextTts(tts, reset)
                    /\ i' = i + 1
                    /\ pc' = pc
    /\ UNCHANGED <<args, twitter, sleeping>>
    /\ UNCHANGED mainVars

\* `return twitter': the caller gets the session of credential i and goes to
\* the top of the while loop; the locals of init_twitter_api are gone
ReturnTwitter ==
    /\ pc = "return"
    /\ twitter' = i
    /\ pc' = "search"
    /\ i' = 0
    /\ tts' = DefaultTts
    /\ remaining' = 0
    /\ probed' = <<>>
    /\ UNCHANGED <<args, sleeping>>
    /\ UNCHANGED mainVars

\* a probe whose exception leaves init_twitter_api
ProbeSkipped_aborts(kind) ==
    /\ pc = "probe"
    /\ i <= Len(args.client_id)
    /\ probed' = Append(probed, [kind |-> kind, remaining |-> remaining,
                                 reset |-> 0])
    /\ pc' = "raised"
    /\ UNCHANGED <<args, twitter, i, tts, remaining, sleeping>>
    /\ UNCHANGED mainVars

\* the probe of credential i raises: the credential is skipped
ProbeSkipped(kind) ==
    /\ pc = "probe"
    /\ i <= Len(args.client_id)
    /\ probed' = Append(probed, [kind |-> kind, remaining |-> remaining,
                                 reset |-> 0])
    /\ i' = i + 1
    /\ UNCHANGED <<args, twitter, pc, tts, remaining, sleeping>>
    /\ UNCHANGED mainVars

\* `except TwythonRateLimitError: pass'
ProbeRateLimitError ==
    /\ i <= Len(args.client_secret)
    /\ ProbeSkipped("TwythonRateLimitError")

\* `except Exception as e: log.warning(e)', an IndexError when the
\* credential has no secret
ProbeException ==
    ProbeSkipped("Exception")

\* lines 165-167: the for loop is over; time.sleep rejects a negative length
EndOfPass ==
    /\ pc = "probe"
    /\ i > Len(args.client_id)
    /\ IF remaining = 0
       THEN IF tts < 0
            THEN /\ pc' = "raised"
                 /\ outcome' = "ValueError: sleep length must be non-negative"
                 /\ UNCHANGED acqVars
            ELSE /\ pc' = "tts_sleep"
                 /\ sleeping' = tts
                 /\ UNCHANGED <<i, tts, remaining, probed, outcome>>
       ELSE /\ pc' = "probe"
            /\ i' = 1
            /\ tts' = DefaultTts
            /\ probed' = <<>>
            /\ UNCHANGED <<remaining, outcome, sleeping>>
    /\ UNCHANGED <<args, twitter, max_id, captured, finished, retries, results,
                   previous_results, published, written, k, request_max_id,
                   total_logged, transient_streak, pages>>

\* time.sleep(tts) returns and the next pass starts
TtsSleepDone ==
    /\ pc = "tts_sleep"
    /\ pc' = "probe"
    /\ i' = 1
    /\ tts' = DefaultTts
    /\ probed' = <<>>
    /\ sleeping' = 0
    /\ UNCHANGED <<args, twitter, remaining>>
    /\ UNCHANGED mainVars

Next ==
    \/ EnterInitTwitterApi
    \/ ProbeOk
    \/ ReturnTwitter
    \/ ProbeRateLimitError
    \/ ProbeException
    \/ EndOfPass
    \/ TtsSleepDone
    \/ SearchPage
    \/ ProcessStatus
    \/ SearchRateLimited
    \/ SearchTransient
    \/ RetrySleepDone
    \/ SearchPermanent
    \/ SearchUnclassified

Spec == Init /\ [][Next]_vars

\* ------------------------------------- an upstream that honours the cursor
\* the page returned holds only ids at or below the max_id of the request,
\* in strictly descending order
UpstreamHonoursCursor ==
    /\ \A j \in DOMAIN results' : results'[j].id <= max_id
    /\ \A j \in 1..(Len(results') - 1) : results'[j].id > results'[j + 1].id

SearchPageOrdered ==
    /\ SearchPage
    /\ UpstreamHonoursCursor

\* runs that start from --max-id MaxId with every sink, and the default run
OrderedArgsSet ==
    {[BaseArgs EXCEPT !.kafka_brokers = sinks[1], !.output_json = sinks[2],
                      !.max_id = m] :
        sinks \in {<<TRUE, FALSE>>, <<TRUE, TRUE>>, <<FALSE, TRUE>>},
        m \in {0, MaxId}}

InitOrdered ==
    /\ args \in OrderedArgsSet
    /\ Start

NextOrdered ==
    \/ EnterInitTwitterApi
    \/ ProbeOk
    \/ ReturnTwitter
    \/ ProbeRateLimitError
    \/ ProbeException
    \/ EndOfPass
    \/ TtsSleepDone
    \/ SearchPageOrdered
    \/ ProcessStatus
    \/ SearchRateLimited
    \/ SearchTransient
    \/ RetrySleepDone
    \/ SearchPermanent
    \/ SearchUnclassified

SpecOrdered == InitOrdered /\ [][NextOrdered]_vars

\* ------------------------------------------- the for loop on wider entries
\* statuses with larger ids, two screen names and two creation dates
EntryStatuses ==
    {Status(id, c, s) : id \in {7, 42}, c \in {"Thu Nov 05", "Fri Nov 06"},
                        s \in {"alice", "bob"}}

EntryPages == UNION {[1..m -> EntryStatuses] : m \in 1..MaxPageLen}

EntryArgsSet ==
    {BaseArgs, [BaseArgs EXCEPT !.output_json = TRUE]}

\* main() entering the for loop on the page of its first search
InitEntry ==
    /\ args \in EntryArgsSet
    /\ results \in EntryPages
    /\ max_id = args.max_id
    /\ captured = 0
    /\ finished = FALSE
    /\ retries = 0
    /\ previous_results = <<>>
    /\ twitter = 1
    /\ published = <<>>
    /\ written = <<>>
    /\ pc = "for"
    /\ k = 1
    /\ outcome = "page"
    /\ request_max_id = args.max_id
    /\ total_logged = -1
    /\ transient_streak = 0
    /\ pages = 1
    /\ i = 0
    /\ tts = DefaultTts
    /\ remaining = 0
    /\ probed = <<>>
    /\ sleeping = 0

NextEntry ==
    \/ ProcessStatus

SpecEntry == InitEntry /\ [][NextEntry]_vars

\* ------------------------------------------------------------- properties
\* some status has gone through the for loop since the start of the run
StatusProcessed ==
    IF pc = "for" THEN k > 1 \/ pages > 1 ELSE results # <<>>

Terminated == pc \in {"done", "raised"}

\* C1: after max_retries consecutive 500/503 answers at the same cursor the
\* run is over: no further sleep and no further search of that episode.
C1_RetryBudget ==
    transient_streak >= max_retries => pc = "done"

\* C2: with a limit N > 0, captured never exceeds N, no sink gets more than
\* N records, the run is over as soon as captured reaches N, and nothing is
\* forwarded from then on.
C2_LimitRespected ==
    /\ [](args.limit > 0 =>
            /\ captured <= args.limit
            /\ Len(published) <= args.limit
            /\ Len(written) <= args.limit
            /\ (captured >= args.limit => pc = "done" /\ finished))
    /\ [][(args.limit > 0 /\ captured >= args.limit) =>
            (published' = published /\ written' = written
                /\ captured' = captured)]_vars

\* the limit is reached by the first status of the second page, which has a
\* second status that is never looked at
C2_Witness ==
    /\ args.limit = 2
    /\ captured = 2
    /\ pc = "done"
    /\ pages = 2
    /\ k = 1
    /\ Len(results) = 2
    /\ Len(published) = 2

IdsOf(page) == {page[j].id : j \in DOMAIN page}
MinId(page) == CHOOSE m \in IdsOf(page) : \A n \in IdsOf(page) : m <= n
Descending(page) ==
    \A j \in 1..(Len(page) - 1) : page[j].id >= page[j + 1].id
\* the last search was answered with a page that went through the for loop
\* to its end, and so did a page before it
TwoPagesProcessed == pc = "search" /\ outcome = "page" /\ pages >= 2

\* C4 as stated: when the last page, processed to its end, has a smaller
\* minimum id than the page before it, the cursor is below the cursor the
\* page was requested with (the cursor after the page before).
C4_AnyOrder ==
    (TwoPagesProcessed /\ MinId(results) < MinId(previous_results))
        => max_id < request_max_id

\* C4, amended: the same for pages that list their statuses in descending id
\* order.
C4_DescendingPages ==
    (/\ TwoPagesProcessed
     /\ MinId(results) < MinId(previous_results)
     /\ Descending(results)
     /\ Descending(previous_results))
        => max_id < request_max_id

C4_Witness ==
    /\ TwoPagesProcessed
    /\ Len(results) = 2
    /\ Len(previous_results) = 2
    /\ MinId(results) < MinId(previous_results)
    /\ Descending(results)
    /\ Descending(previous_results)
    /\ max_id < request_max_id

\* the step in which twitter.search answers with a page
IsSearchPage == pc = "search" /\ outcome' = "page"
RunEndsExhausted ==
    /\ pc' = "done"
    /\ finished'
    /\ captured' = captured
    /\ published' = published
    /\ written' = written
    /\ total_logged' = captured

\* C5 as stated: a page with the id set of the page before it ends the run
\* as exhausted, nothing forwarded, captured unchanged.
C5_SameIdSet ==
    [][(IsSearchPage /\ results # <<>> /\ IdsOf(results') = IdsOf(results))
        => RunEndsExhausted]_vars

\* C5, amended: a page equal to the page before it (same statuses, same
\* order) ends the run as exhausted, nothing forwarded, captured unchanged.
C5_SamePage ==
    [][(IsSearchPage /\ results # <<>> /\ results' = results)
        => RunEndsExhausted]_vars

C5_Witness ==
    /\ pc = "done"
    /\ finished
    /\ outcome = "page"
    /\ pages = 2
    /\ Len(results) = 2
    /\ results = previous_results
    /\ captured = 2
    /\ total_logged = 2

\* the control flow is inside init_twitter_api
InInitTwitterApi == pc \in {"init_twitter_api", "probe", "return", "tts_sleep"}
\* C6: a 429 calls init_twitter_api, and from the 429 until the next search
\* the cursor, the last page, captured and both sinks stay as they are, so
\* the next search carries the max_id and the previous page of the failed one.
C6_RateLimitKeepsCursor ==
    /\ []((outcome = "RateLimited" /\ (InInitTwitterApi \/ pc = "search"))
            => (max_id = request_max_id /\ previous_results = results))
    /\ [][(pc = "search" /\ outcome' = "RateLimited")
            => pc' = "init_twitter_api"]_vars
    /\ [][((pc = "search" /\ outcome' = "RateLimited") \/ InInitTwitterApi)
            => UNCHANGED <<max_id, results, captured, published, written>>]_vars

\* back at the search after a rate limit that came after a processed page
C6_Witness ==
    /\ outcome = "RateLimited"
    /\ pc = "search"
    /\ twitter # 0
    /\ pages = 1
    /\ captured = 2
    /\ max_id # args.max_id

\* C7: a status without created_at is dropped and the run goes on.
C7_MissingCreatedAtDropped ==
    [][(pc = "for" /\ results[k].created_at = Absent)
        => (/\ captured' = captured
            /\ published' = published
            /\ written' = written
            /\ pc' # "raised")]_vars

\* C8: the session returned is that of credential i, whose probe of this pass
\* found remaining > 0, and every credential before it was probed in this
\* pass and had no quota left or raised.
C8_FirstWithQuota ==
    /\ [](pc = "return" =>
            /\ Len(probed) = i
            /\ probed[i].kind = "ok"
            /\ probed[i].remaining > 0
            /\ \A j \in 1..(i - 1) :
                  probed[j].kind # "ok" \/ probed[j].remaining = 0)
    /\ [][twitter' # twitter => (pc = "return" /\ twitter' = i)]_vars

C8_Witness ==
    /\ pc = "return"
    /\ i = 2
    /\ probed[1].kind = "ok"
    /\ probed[1].remaining = 0

Min(S) == CHOOSE m \in S : \A n \in S : m <= n
ResetsOf(log) == {log[j].reset : j \in DOMAIN log}
\* every credential was probed in this pass and has no quota left
AllExhausted ==
    /\ Len(probed) = Len(args.client_id)
    /\ \A j \in DOMAIN probed :
          probed[j].kind = "ok" /\ probed[j].remaining = 0
\* time.sleep(tts) has been called at the end of a pass
SleepRequested ==
    \/ pc = "tts_sleep"
    \/ pc = "raised"
          /\ outcome = "ValueError: sleep length must be non-negative"

\* C9 as stated: when every credential of the pass is out of quota, the
\* sleep before the next pass is the least reset_time - now + 1.
C9_LeastReset ==
    (SleepRequested /\ AllExhausted) => tts = Min(ResetsOf(probed))

\* C9, amended: the length passed to time.sleep is the least of 900 and the
\* reset_time - now + 1 of the credentials.
C9_LeastResetCapped ==
    /\ (SleepRequested /\ AllExhausted)
          => tts = Min(ResetsOf(probed) \cup {DefaultTts})
    /\ pc = "tts_sleep" => sleeping = tts

C9_Witness ==
    /\ pc = "tts_sleep"
    /\ AllExhausted
    /\ Len(probed) = 2
    /\ probed[1].reset < probed[2].reset
    /\ sleeping = probed[1].reset

\* C10: a 401, 403 or 404 ends the run at once: no sleep, no further search,
\* cursor, captured and sinks untouched, total logged.
C10_PermanentEndsRun ==
    /\ [](outcome = "Permanent" => (pc = "done" /\ total_logged = captured))
    /\ [][(pc = "search" /\ outcome' = "Permanent")
            => (/\ pc' = "done"
                /\ total_logged' = captured
                /\ UNCHANGED <<max_id, captured, published, written>>)]_vars
    /\ [][pc # "done"]_vars

C10_Witness ==
    /\ outcome = "Permanent"
    /\ pc = "done"
    /\ captured = 2
    /\ total_logged = 2
    /\ ~finished

\* C11: a failure of a polling iteration that is none of 429, 500/503,
\* 401/403/404 leaves main() by the exception: nothing is forwarded by it or
\* after it, no further step is taken and the total is not logged.
C11_UnclassifiedPropagates ==
    /\ [](outcome \in {"Unclassified", "KeyError"}
            => (pc = "raised" /\ total_logged = -1))
    /\ [][(pc = "search" /\ outcome' = "Unclassified")
            => (pc' = "raised"
                /\ UNCHANGED <<max_id, captured, published, written,
                               total_logged>>)]_vars
    /\ [][pc # "raised"]_vars

C11_Witness ==
    /\ pc = "raised"
    /\ outcome = "Unclassified"
    /\ captured = 2
    /\ Len(published) = 2
    /\ total_logged = -1

\* C12: the message published for a status has the status' id_str as key and
\* as value the envelope {id: id_str, url: "https://twitter.com/" +
\* screen_name + "/status/" + id_str}, whatever its other fields; id_str
\* "42" of alice gives https://twitter.com/alice/status/42.
C12_Envelope ==
    /\ [][(pc = "for" /\ published' # published) =>
            published' = Append(published,
                [key |-> results[k].id_str,
                 value |-> [id |-> results[k].id_str,
                            url |-> "https://twitter.com/"
                                      \o results[k].user.screen_name
                                      \o "/status/"
                                      \o results[k].id_str]])]_vars
    /\ [][(/\ pc = "for"
            /\ published' # published
            /\ results[k].id_str = "42"
            /\ results[k].user.screen_name = "alice") =>
            published'[Len(published')] =
                [key |-> "42",
                 value |-> [id |-> "42",
                            url |-> "https://twitter.com/alice/status/42"]]]_vars

\* two statuses of alice with id 42 that differ in another field have been
\* published with the same message
C12_Witness ==
    /\ Len(results) = 2
    /\ Len(published) = 2
    /\ results[1] # results[2]
    /\ published[1] = published[2]
    /\ published[1].key = "42"
    /\ published[1].value.url = "https://twitter.com/alice/status/42"

\* the last search was answered with a page that went through the for loop
\* to its end
PageProcessed == pc = "search" /\ outcome = "page" /\ pages >= 1

\* C13 as stated: after a page processed to its end the cursor is the least
\* id of the page minus one, whatever the order of the page.
C13_MinOfPage ==
    PageProcessed => max_id = MinId(results) - 1

\* C13, amended: after a page processed to its end the cursor is the id of
\* the last status of the page minus one, which is the least id minus one
\* when the page is in descending id order.
C13_LastOfPage ==
    PageProcessed =>
        /\ max_id = results[Len(results)].id - 1
        /\ (Descending(results) => max_id = MinId(results) - 1)

C13_Witness ==
    /\ PageProcessed
    /\ pages = 2
    /\ Len(results) = 2
    /\ results[1].id > results[2].id
    /\ max_id = MinId(results) - 1

\* the terminal conditions of the cursor tracker
LimitReached == args.limit # 0 /\ captured >= args.limit
MaxIdReached == args.max_id # 0 /\ max_id <= args.max_id
SinceIdReached == args.since_id # 0 /\ max_id <= args.since_id

\* C14: once a status has been processed and the capture limit, the max_id
\* limit or the since_id bound is reached, the run is over: no later status
\* of the page is forwarded and no further search is made.
C14_TerminalStops ==
    (StatusProcessed /\ (LimitReached \/ MaxIdReached \/ SinceIdReached))
        => Terminated

AtInvalidStatus ==
    pc = "for" /\ (results[k].id = 0 \/ results[k].created_at = "")

\* C16 as stated: an invalid status leaves the cursor, captured and the
\* terminal decision as they are and causes no retry.
C16_NoEffect ==
    [][AtInvalidStatus =>
        (/\ max_id' = max_id
         /\ captured' = captured
         /\ finished' = finished
         /\ pc' # "retry_sleep")]_vars

\* C16, amended: an invalid status is neither counted nor forwarded and
\* causes no retry, but the cursor moves to its id minus one and the run
\* ends there exactly when a terminal condition holds of that cursor.
C16_CursorMoves ==
    [][AtInvalidStatus =>
        (/\ captured' = captured
         /\ published' = published
         /\ written' = written
         /\ retries' = retries
         /\ max_id' = results[k].id - 1
         /\ pc' \in {"for", "search", "done"}
         /\ (pc' = "done") = finished'
         /\ finished' =
              (\/ (args.limit # 0 /\ captured >= args.limit)
               \/ (args.max_id # 0 /\ max_id' >= args.max_id)
               \/ (args.since_id # 0 /\ max_id' <= args.since_id)))]_vars

\* a page whose second status has an empty created_at and the larger id was
\* processed to its end: one status counted, the cursor moved up
C16_Witness ==
    /\ PageProcessed
    /\ Len(results) = 2
    /\ results[1].created_at = "Thu Nov 05"
    /\ results[2].created_at = ""
    /\ results[2].id > results[1].id
    /\ captured = 1
    /\ max_id = results[2].id - 1

\* C17: a 500/503 within the retry budget leaves the cursor, captured, the
\* last page and both sinks as they are, starts one sleep of 60 seconds,
\* and after it the search is made again with the same cursor.
C17_TransientRetry ==
    /\ [][(pc = "search" /\ outcome' = "Transient"
                /\ transient_streak' < max_retries)
            => (/\ pc' = "retry_sleep"
                /\ sleeping' = 60
                /\ UNCHANGED <<max_id, captured, results, published,
                               written>>)]_vars
    /\ [][pc = "retry_sleep"
            => (/\ pc' = "search"
                /\ sleeping' = 0
                /\ UNCHANGED <<max_id, captured, results, published,
                               written>>)]_vars
    /\ []((pc = "retry_sleep" /\ transient_streak < max_retries)
            => (sleeping = 60 /\ max_id = request_max_id))

\* back at the search after the sleep that followed a first 500/503, which
\* came after a processed page
C17_Witness ==
    /\ pc = "search"
    /\ outcome = "Transient"
    /\ transient_streak = 1
    /\ sleeping = 0
    /\ captured = 2
    /\ max_id = request_max_id
    /\ max_id # args.max_id

\* C18: a probe that raises (rate limit error, any other exception, a
\* credential without secret) only skips its credential: the pass goes on
\* with the next one, tts, remaining and the session untouched, and a later
\* credential with quota is still returned.
C18_ProbeErrorSkips ==
    /\ [][(/\ pc = "probe"
            /\ Len(probed') = Len(probed) + 1
            /\ probed'[Len(probed')].kind # "ok")
            => (/\ pc' = "probe"
                /\ i' = i + 1
                /\ UNCHANGED <<tts, remaining, twitter>>)]_vars
    /\ [](\A j \in DOMAIN probed :
            j > Len(args.client_secret) => probed[j].kind = "Exception")
    /\ []((pc = "raised" /\ probed # <<>>)
            => outcome = "ValueError: sleep length must be non-negative")

\* the second credential is returned after the probe of the first raised
C18_Witness ==
    /\ pc = "return"
    /\ i = 2
    /\ Len(probed) = 2
    /\ probed[1].kind = "TwythonRateLimitError"
    /\ probed[2].remaining > 0

\* C19: with the queue sink configured, captured is the number of messages
\* published, and a step counts a status exactly when it publishes it.
C19_CountedIffPublished ==
    /\ [](args.kafka_brokers => Len(published) = captured)
    /\ [][args.kafka_brokers =>
            ((captured' # captured) = (published' # published))]_vars

\* two statuses published, an invalid one skipped, then a rate limit
C19_Witness ==
    /\ args.kafka_brokers
    /\ pc = "search"
    /\ outcome = "RateLimited"
    /\ pages = 2
    /\ captured = 2
    /\ Len(published) = 2
    /\ results[1].created_at = ""

\* C20: with an upstream that honours the cursor, no id is forwarded twice
\* to the queue or to the file.
C20_NoDuplicate ==
    /\ \A a, b \in DOMAIN published :
          published[a].key = published[b].key => a = b
    /\ \A a, b \in DOMAIN written :
          written[a].id = written[b].id => a = b

\* two statuses from two pages in both sinks, a rate limit after them
C20_Witness ==
    /\ Len(published) = 2
    /\ Len(written) = 2
    /\ pages = 2
    /\ Len(previous_results) = 1
    /\ outcome = "RateLimited"
    /\ pc = "search"

\* C3: with --max-id L, once a status has been processed and the cursor is
\* at or below L the run is over.
C3_StopsAtMaxId ==
    (args.max_id # 0 /\ StatusProcessed /\ max_id <= args.max_id)
        => Terminated

====
